---- MODULE Spec2Model ----
(***************************************************************************)
(* A model of the jike package: the authenticated request executor         *)
(* (jike.client.JikeClient), the token extraction and the QR confirmation  *)
(* poll loop (jike.auth), and of the standalone scripts beside it.         *)
(*                                                                         *)
(* The specifications share the variables below:                           *)
(*   Spec         a JikeClient serving a sequence of _request calls        *)
(*   SpecRefresh  JikeClient._refresh and jike.auth.refresh_tokens, each   *)
(*                applied to the same prior pair and refresh response      *)
(*   SpecExtract  _extract_tokens applied to a confirmation response       *)
(*   SpecPoll     poll_confirmation against an arbitrary server            *)
(*   SpecAuth     authenticate: create_session, poll_confirmation,         *)
(*                refresh_tokens                                           *)
(*   SpecPackage  a process that drives a JikeClient or runs authenticate  *)
(*   SpecPollFair SpecPoll with weak fairness of the loop's steps          *)
(*   SpecScripts  the standalone scripts: notifications of                 *)
(*                scripts/client.py, main of scripts/find_users.py and     *)
(*                fetch_all_posts of scripts/export.py                     *)
(*   SpecExport   SpecScripts for scripts/export.py alone                  *)
(* The remote service is the environment: every response (status, body,    *)
(* headers, or a network exception) is chosen nondeterministically.        *)
(***************************************************************************)
EXTENDS Integers, Sequences, FiniteSets, TLC

VARIABLES
    tokens,     \* JikeClient._tokens: the TokenPair the client holds
    pc,         \* where the client is: "idle", "api", "refresh", "done"
    call,       \* the arguments of the _request call being served
    retry,      \* retry_on_401 of the _request frame that awaits a response
    trace,      \* requests sent and responses received during the call
    result,     \* how the call ended: a returned value or a raised error
    calls,      \* number of calls started on this client
    sent,       \* how many API and refresh requests the client has sent in all
    latest,     \* the pair of the most recent successful refresh response
                \* (the pair the client was built with, before any)
    rin,        \* SpecRefresh: the prior pair and the refresh response drawn
    rauth,      \* SpecRefresh: what refresh_tokens did with them
    xresp,      \* SpecExtract: the confirmation response given to _extract_tokens
    xout,       \* SpecExtract: what _extract_tokens did with it
    ppc,        \* SpecPoll: where poll_confirmation is
    uuid,       \* SpecPoll: the session identifier polled for
    preq,       \* SpecPoll: the latest poll request issued
    nreq,       \* SpecPoll: poll requests issued so far
    n200,       \* SpecPoll: how many of them were answered with HTTP 200
    plast,      \* SpecPoll: the outcome of the latest poll request
    sleeps,     \* SpecPoll: the duration of every time.sleep call, in order
    presult,    \* SpecPoll: how poll_confirmation ended
    apc,        \* SpecAuth: where authenticate is
    alog,       \* SpecAuth: the requests authenticate's own steps sent, with their answers
    aresult,    \* SpecAuth: how authenticate ended
    script,     \* SpecScripts: the standalone script that runs
    spc,        \* SpecScripts: where the script is: "idle", "api", "refresh", "end"
    sthread,    \* SpecScripts: the (at, rt) variables of the caller of _call
    sframe,     \* SpecScripts: the (at, rt) of the _call frame that awaits a response
    scall,      \* SpecScripts: method, path and body of the call being served
    sretry,     \* SpecScripts: retry of the _call frame that awaits a response
    slog,       \* SpecScripts: requests sent and responses received during the call
    slatest,    \* SpecScripts: the pair the most recent successful refresh returned
    scalls,     \* SpecScripts: number of calls the script has made
    sresult,    \* SpecScripts: how the latest call ended
    skey,       \* SpecScripts: export.py's load_more_key
    sposts,     \* SpecScripts: export.py's all_posts
    sfetched    \* SpecScripts: the key sent for, and the data of, every page fetched

vars == <<tokens, pc, call, retry, trace, result, calls, sent, latest, rin, rauth,
          xresp, xout, ppc, uuid, preq, nreq, n200, plast, sleeps, presult,
          apc, alog, aresult,
          script, spc, sthread, sframe, scall, sretry, slog, slatest, scalls,
          sresult, skey, sposts, sfetched>>

clientVars  == <<tokens, pc, call, retry, trace, result, calls, sent, latest>>
refreshVars == <<rin, rauth>>
extractVars == <<xresp, xout>>
pollVars    == <<ppc, uuid, preq, nreq, n200, plast, sleeps, presult>>
authVars    == <<apc, alog, aresult>>
scriptVars  == <<script, spc, sthread, sframe, scall, sretry, slog, slatest, scalls,
                 sresult, skey, sposts, sfetched>>

(***************************************************************************)
(* Values                                                                  *)
(***************************************************************************)

\* Python's None where an object is expected: no call, no result, no pair.
None == [kind |-> "None"]

\* Python's None where a string is expected: an absent header or dict key,
\* no JSON body.
NoValue == "<None>"

\* Bound: how many _request calls one client serves in a behaviour.
MaxCalls == 3

TokenPair(access, refresh) ==
    [access_token |-> access, refresh_token |-> refresh]

API_BASE == "https://api.ruguoapp.com"

DEFAULT_HEADERS ==
    [k \in {"Origin", "User-Agent", "Accept", "DNT"} |->
        CASE k = "Origin"     -> "https://web.okjike.com"
          [] k = "User-Agent" -> "Mozilla/5.0 (iPhone; CPU iPhone OS 18_5 like Mac OS X) AppleWebKit/605.1.15 (KHTML, like Gecko) Version/18.5 Mobile/15E148 Safari/604.1"
          [] k = "Accept"     -> "application/json, text/plain, */*"
          [] k = "DNT"        -> "1"]

AccessHeader  == "x-jike-access-token"
RefreshHeader == "x-jike-refresh-token"

\* {**a, **b}: the right operand wins on a shared key.
DictMerge(a, b) == b @@ a

\* dict.get(key, default)
DictGet(d, key, default) == IF key \in DOMAIN d THEN d[key] ELSE default

\* A response's headers, built from the value of each token header
\* (NoValue: the header is absent).
MkHeaders(a, r) ==
    [k \in ({AccessHeader : x \in {a} \ {NoValue}} \cup
            {RefreshHeader : x \in {r} \ {NoValue}})
        |-> IF k = AccessHeader THEN a ELSE r]

\* Response.raise_for_status raises HTTPError for 4xx and 5xx.
RaisesForStatus(status) == status >= 400 /\ status < 600

\* Response.json(): the parsed document, or ValueError on a body that is
\* no JSON.
JsonValid(content) == content \in {"{\"data\":\"ok\"}", "{\"data\":\"other\"}"}

JsonLoads(content) ==
    CASE content = "{\"data\":\"ok\"}"    -> [data |-> "ok"]
      [] content = "{\"data\":\"other\"}" -> [data |-> "other"]

EmptyDict == <<>>

Returned(v)      == [kind |-> "return", value |-> v]
RaisedHTTP(s)    == [kind |-> "raise", exc |-> "HTTPError", status |-> s]
RaisedNetwork    == [kind |-> "raise", exc |-> "RequestException"]
RaisedValueError == [kind |-> "raise", exc |-> "ValueError"]

(***************************************************************************)
(* The environment of the client: what the server may answer               *)
(***************************************************************************)

ApiStatuses == {200, 401, 403, 500}
ApiContents == {"", "{\"data\":\"ok\"}", "{\"data\":\"other\"}", "<html>"}

\* A response to an API request. The code reads the content of a response
\* only after raise_for_status let it pass, so error responses carry none.
ApiResponses ==
    {[ev |-> "resp", status |-> s, content |-> c] :
        s \in {200}, c \in ApiContents}
    \cup {[ev |-> "resp", status |-> s, content |-> ""] : s \in ApiStatuses \ {200}}

\* requests raised instead of returning a response.
NetworkError == [ev |-> "exc"]

NewAccessValues  == {NoValue, "", "a1", "a2"}
NewRefreshValues == {NoValue, "", "r1", "r2"}

RefreshResponses ==
    {[ev |-> "refresh_resp", status |-> 200, headers |-> MkHeaders(a, r)] :
        a \in NewAccessValues, r \in NewRefreshValues}
    \cup {[ev |-> "refresh_resp", status |-> s, headers |-> MkHeaders(h[1], h[2])] :
        s \in {401, 500}, h \in {<<NoValue, NoValue>>, <<"a1", "r1">>}}

\* The arguments _request is entered with: the method, path and JSON body
\* the public methods pass, and retry_on_401 (True unless the caller says so).
Calls ==
    { [method |-> m.method, path |-> m.path, json |-> m.json, retry_on_401 |-> b] :
        m \in { [method |-> "GET",  path |-> "/1.0/notifications/unread", json |-> NoValue],
                [method |-> "POST", path |-> "/1.0/notifications/list",   json |-> "{}"] },
        b \in BOOLEAN }

InitialTokens == {TokenPair("a0", "r0")}

(***************************************************************************)
(* JikeClient                                                              *)
(***************************************************************************)

\* Mutant: the whole pair goes out with every API request.
Headers_WholePair(t) ==
    DictMerge(DEFAULT_HEADERS,
              [k \in {"Content-Type", AccessHeader, RefreshHeader} |->
                  IF k = AccessHeader THEN t.access_token
                  ELSE IF k = RefreshHeader THEN t.refresh_token
                  ELSE "application/json"])

\* JikeClient._headers
Headers(t) ==
    DictMerge(DEFAULT_HEADERS,
              [k \in {"Content-Type", AccessHeader} |->
                  IF k = AccessHeader THEN t.access_token ELSE "application/json"])

\* requests.request(method, API_BASE + path, headers=self._headers(), **kwargs)
ApiRequest(c, t) ==
    [ev |-> "api", method |-> c.method, url |-> <<API_BASE, c.path>>,
     headers |-> Headers(t), json |-> c.json]

\* The request _refresh posts.
RefreshRequest(t) ==
    [ev |-> "refresh", method |-> "POST",
     url |-> <<API_BASE, "/app_auth_tokens.refresh">>,
     headers |-> DictMerge(DEFAULT_HEADERS,
                    [k \in {"Content-Type", RefreshHeader} |->
                        IF k = RefreshHeader THEN t.refresh_token
                        ELSE "application/json"]),
     json |-> "{}"]

\* Mutant: the status of the refresh response is not looked at.
RefreshFails_Swallowed(resp) == FALSE

\* resp.raise_for_status() in _refresh.
RefreshFails(resp) == RaisesForStatus(resp.status)

\* Mutant: the refreshed pair is never installed.
RefreshedPair_KeepsOld(t, headers) == t

\* Mutant: a header the response lacks is not replaced by the prior value.
RefreshedPair_NoFallback(t, headers) ==
    TokenPair(DictGet(headers, AccessHeader, NoValue),
              DictGet(headers, RefreshHeader, NoValue))

\* The pair _refresh installs after a response that passed raise_for_status.
RefreshedPair(t, headers) ==
    TokenPair(DictGet(headers, AccessHeader, t.access_token),
              DictGet(headers, RefreshHeader, t.refresh_token))

\* Mutant: a refresh that fails leaves the client with a blank pair.
RefreshOutcome_ClearsOnFailure(t, resp) ==
    IF resp = NetworkError THEN [tokens |-> TokenPair("", ""), raised |-> RaisedNetwork]
    ELSE IF RefreshFails(resp)
         THEN [tokens |-> TokenPair("", ""), raised |-> RaisedHTTP(resp.status)]
         ELSE [tokens |-> RefreshedPair(t, resp.headers), raised |-> None]

\* Mutant: the pair is built from the response before its status is looked
\* at.
RefreshOutcome_InstallsFirst(t, resp) ==
    IF resp = NetworkError THEN [tokens |-> t, raised |-> RaisedNetwork]
    ELSE [tokens |-> RefreshedPair(t, resp.headers),
          raised |-> IF RefreshFails(resp) THEN RaisedHTTP(resp.status) ELSE None]

\* _refresh from the arrival of its response on: the pair the client holds
\* afterwards and the error raised, if any.
RefreshOutcome(t, resp) ==
    IF resp = NetworkError THEN [tokens |-> t, raised |-> RaisedNetwork]
    ELSE IF RefreshFails(resp)
         THEN [tokens |-> t, raised |-> RaisedHTTP(resp.status)]
         ELSE [tokens |-> RefreshedPair(t, resp.headers), raised |-> None]

\* Mutant: resp.json() is called whatever the content.
Finish_NoEmptyCheck(resp) ==
    IF RaisesForStatus(resp.status) THEN RaisedHTTP(resp.status)
    ELSE IF JsonValid(resp.content) THEN Returned(JsonLoads(resp.content))
    ELSE RaisedValueError

\* The tail of _request: resp.raise_for_status(), then
\* resp.json() if resp.content else {}.
Finish(resp) ==
    IF RaisesForStatus(resp.status) THEN RaisedHTTP(resp.status)
    ELSE IF resp.content = "" THEN Returned(EmptyDict)
    ELSE IF JsonValid(resp.content) THEN Returned(JsonLoads(resp.content))
    ELSE RaisedValueError

\* Mutant: the retried frame retries again.
RetriesOn_Always(resp, retry_on_401) == resp.status = 401

\* Mutant: every error status is answered with a refresh and a retry.
RetriesOn_AnyError(resp, retry_on_401) ==
    RaisesForStatus(resp.status) /\ retry_on_401

\* Mutant: the flag is read the wrong way round.
RetriesOn_FlagInverted(resp, retry_on_401) == resp.status = 401 /\ ~retry_on_401

\* Whether _request answers this response with a refresh and a retry.
RetriesOn(resp, retry_on_401) == resp.status = 401 /\ retry_on_401

\* Mutant: the recursive call is made with retry_on_401 left at its default.
RetriedFrameRetry_Default == TRUE

\* retry_on_401 of the recursive call _request makes after a refresh.
RetriedFrameRetry == FALSE

\* _request is entered from outside: the first request goes out.
Request ==
    /\ pc \in {"idle", "done"}
    /\ calls < MaxCalls
    /\ \E c \in Calls :
        /\ call' = c
        /\ retry' = c.retry_on_401
        /\ trace' = <<ApiRequest(c, tokens)>>
    /\ calls' = calls + 1
    /\ sent' = [sent EXCEPT !.api = @ + 1]
    /\ pc' = "api"
    /\ result' = None
    /\ UNCHANGED <<tokens, latest, refreshVars, extractVars, scriptVars, pollVars, authVars>>

\* Mutant: a request that raised is sent again.
ApiNetworkError_Retry ==
    /\ pc = "api"
    /\ trace' = trace \o <<NetworkError, ApiRequest(call, tokens)>>
    /\ sent' = [sent EXCEPT !.api = @ + 1]
    /\ UNCHANGED <<tokens, pc, call, retry, result, calls, latest, refreshVars,
                   extractVars, scriptVars, pollVars, authVars>>

\* requests.request raised: nothing in _request catches it.
ApiNetworkError ==
    /\ pc = "api"
    /\ trace' = Append(trace, NetworkError)
    /\ result' = RaisedNetwork
    /\ pc' = "done"
    /\ UNCHANGED <<tokens, call, retry, calls, sent, latest, refreshVars, extractVars, scriptVars,
                   pollVars, authVars>>

\* Mutant: when the retried request fails, the client goes back to the pair
\* it held before the refresh.
ApiResponse_RollsBack ==
    /\ pc = "api"
    /\ \E resp \in ApiResponses :
        IF RetriesOn(resp, retry)
        THEN /\ trace' = trace \o <<resp, RefreshRequest(tokens)>>
             /\ sent' = [sent EXCEPT !.refresh = @ + 1]
             /\ pc' = "refresh"
             /\ UNCHANGED <<result, tokens>>
        ELSE /\ trace' = Append(trace, resp)
             /\ result' = Finish(resp)
             /\ pc' = "done"
             /\ tokens' = IF Len(trace) = 5 /\ RaisesForStatus(resp.status)
                          THEN TokenPair(trace[1].headers[AccessHeader],
                                         trace[3].headers[RefreshHeader])
                          ELSE tokens
             /\ UNCHANGED sent
    /\ UNCHANGED <<call, retry, calls, latest, refreshVars, extractVars, scriptVars,
                   pollVars, authVars>>

\* The response to an API request arrives: either _refresh is entered and
\* posts its request, or the call ends.
ApiResponse ==
    /\ pc = "api"
    /\ \E resp \in ApiResponses :
        IF RetriesOn(resp, retry)
        THEN /\ trace' = trace \o <<resp, RefreshRequest(tokens)>>
             /\ sent' = [sent EXCEPT !.refresh = @ + 1]
             /\ pc' = "refresh"
             /\ UNCHANGED result
        ELSE /\ trace' = Append(trace, resp)
             /\ result' = Finish(resp)
             /\ pc' = "done"
             /\ UNCHANGED sent
    /\ UNCHANGED <<tokens, call, retry, calls, latest, refreshVars, extractVars, scriptVars,
                   pollVars, authVars>>

\* requests.post raised inside _refresh: it propagates through _request.
RefreshNetworkError ==
    /\ pc = "refresh"
    /\ LET o == RefreshOutcome(tokens, NetworkError) IN
        /\ tokens' = o.tokens
        /\ result' = o.raised
    /\ trace' = Append(trace, NetworkError)
    /\ pc' = "done"
    /\ UNCHANGED <<call, retry, calls, sent, latest, refreshVars, extractVars, scriptVars,
                   pollVars, authVars>>

\* The refresh response arrives: raise_for_status ends the call, or the new
\* pair is installed and _request re-enters itself with retry_on_401=False.
RefreshResponse ==
    /\ pc = "refresh"
    /\ \E resp \in RefreshResponses :
        LET o == RefreshOutcome(tokens, resp) IN
        IF o.raised # None
        THEN /\ tokens' = o.tokens
             /\ trace' = Append(trace, resp)
             /\ result' = o.raised
             /\ pc' = "done"
             /\ UNCHANGED <<retry, sent, latest>>
        ELSE /\ tokens' = o.tokens
             /\ retry' = RetriedFrameRetry
             /\ trace' = trace \o <<resp, ApiRequest(call, o.tokens)>>
             /\ sent' = [sent EXCEPT !.api = @ + 1]
             /\ latest' = TokenPair(
                    DictGet(resp.headers, AccessHeader, latest.access_token),
                    DictGet(resp.headers, RefreshHeader, latest.refresh_token))
             /\ pc' = "api"
             /\ UNCHANGED result
    /\ UNCHANGED <<call, calls, refreshVars, extractVars, scriptVars, pollVars, authVars>>

\* The parts of the state a specification does not use stay as they are here.
ClientIdle ==
    /\ tokens = None /\ pc = "off" /\ call = None /\ retry = TRUE
    /\ trace = <<>> /\ result = None /\ calls = 0
    /\ sent = [api |-> 0, refresh |-> 0] /\ latest = None
RefreshIdle == rin = None /\ rauth = None
ExtractIdle == xresp = None /\ xout = None
PollIdle ==
    /\ ppc = "off" /\ uuid = NoValue /\ preq = None
    /\ nreq = 0 /\ n200 = 0 /\ plast = None
    /\ sleeps = <<>> /\ presult = None
AuthIdle == apc = "off" /\ alog = <<>> /\ aresult = None
ScriptIdle ==
    /\ script = "off" /\ spc = "off" /\ sthread = None /\ sframe = None
    /\ scall = None /\ sretry = TRUE /\ slog = <<>> /\ slatest = None
    /\ scalls = 0 /\ sresult = None /\ skey = NoValue /\ sposts = <<>>
    /\ sfetched = <<>>

Init ==
    /\ tokens \in InitialTokens
    /\ pc = "idle"
    /\ call = None
    /\ retry = TRUE
    /\ trace = <<>>
    /\ result = None
    /\ calls = 0
    /\ sent = [api |-> 0, refresh |-> 0]
    /\ latest = tokens
    /\ RefreshIdle
    /\ ExtractIdle
    /\ PollIdle
    /\ AuthIdle
    /\ ScriptIdle

Next ==
    \/ Request
    \/ ApiNetworkError
    \/ ApiResponse
    \/ RefreshNetworkError
    \/ RefreshResponse

Spec == Init /\ [][Next]_vars

(***************************************************************************)
(* jike.auth.refresh_tokens, and SpecRefresh                               *)
(***************************************************************************)

\* Mutant: the caller's headers replace the static ones instead of joining
\* them.
Post_CallerHeadersOnly(path, headers, json) ==
    [ev |-> "post", method |-> "POST", url |-> <<API_BASE, path>>,
     headers |-> headers, json |-> json]

\* jike.auth._post: the request it hands to requests.post.
Post(path, headers, json) ==
    [ev |-> "post", method |-> "POST", url |-> <<API_BASE, path>>,
     headers |-> DictMerge(DictMerge(DEFAULT_HEADERS,
                               [k \in {"Content-Type"} |-> "application/json"]),
                           headers),
     json |-> json]

\* The request refresh_tokens posts.
RefreshTokensRequest(token_pair) ==
    Post("/app_auth_tokens.refresh",
         [k \in {RefreshHeader} |-> token_pair.refresh_token], "{}")

\* Mutant: an absent access-token header gives an empty access token.
refresh_tokens_BlankAccess(token_pair, resp) ==
    IF resp = NetworkError THEN RaisedNetwork
    ELSE IF RaisesForStatus(resp.status) THEN RaisedHTTP(resp.status)
    ELSE Returned(TokenPair(
            DictGet(resp.headers, AccessHeader, ""),
            DictGet(resp.headers, RefreshHeader, token_pair.refresh_token)))

\* refresh_tokens from the arrival of its response on: the pair returned,
\* or the error raised.
refresh_tokens(token_pair, resp) ==
    IF resp = NetworkError THEN RaisedNetwork
    ELSE IF RaisesForStatus(resp.status) THEN RaisedHTTP(resp.status)
    ELSE Returned(TokenPair(
            DictGet(resp.headers, AccessHeader, token_pair.access_token),
            DictGet(resp.headers, RefreshHeader, token_pair.refresh_token)))

PriorPairs == {TokenPair(a, r) : a \in {"a0", "a1"}, r \in {"r0", "r1"}}

\* A client is constructed on the prior pair; the server's answer to the
\* refresh request is drawn.
InitRefresh ==
    /\ tokens \in PriorPairs
    /\ pc = "idle"
    /\ call = None
    /\ retry = TRUE
    /\ trace = <<>>
    /\ result = None
    /\ calls = 0
    /\ sent = [api |-> 0, refresh |-> 0]
    /\ latest = tokens
    /\ \E resp \in RefreshResponses \cup {NetworkError} :
        rin = [pair |-> tokens, resp |-> resp]
    /\ rauth = None
    /\ ExtractIdle
    /\ PollIdle
    /\ AuthIdle
    /\ ScriptIdle

\* client._refresh() is called and gets the response.
ClientRefresh ==
    /\ pc = "idle"
    /\ LET o == RefreshOutcome(tokens, rin.resp) IN
        /\ tokens' = o.tokens
        /\ result' = IF o.raised # None THEN o.raised ELSE Returned(None)
    /\ trace' = <<RefreshRequest(tokens), rin.resp>>
    /\ sent' = [sent EXCEPT !.refresh = @ + 1]
    /\ latest' = tokens'
    /\ pc' = "done"
    /\ UNCHANGED <<call, retry, calls, rin, rauth, extractVars, scriptVars, pollVars, authVars>>

\* refresh_tokens(pair) is called and gets the response.
AuthRefresh ==
    /\ rauth = None
    /\ rin # None
    /\ rauth' = [request |-> RefreshTokensRequest(rin.pair),
                 outcome |-> refresh_tokens(rin.pair, rin.resp)]
    /\ UNCHANGED <<clientVars, rin, extractVars, scriptVars, pollVars, authVars>>

NextRefresh == ClientRefresh \/ AuthRefresh

SpecRefresh == InitRefresh /\ [][NextRefresh]_vars

(***************************************************************************)
(* jike.auth._extract_tokens, and SpecExtract                              *)
(***************************************************************************)

\* The keys a confirmation body may carry the tokens under.
BodyKeys == {AccessHeader, RefreshHeader, "access_token", "refresh_token"}

\* A dict holding v[k] under each key k whose v[k] is not NoValue.
MkDict(keys, v) == [k \in {x \in keys : v[x] # NoValue} |-> v[k]]

XValues(k) ==
    CASE k = AccessHeader    -> {NoValue, "", "body-access"}
      [] k = RefreshHeader   -> {NoValue, "", "body-refresh"}
      [] k = "access_token"  -> {NoValue, "", "alt-access"}
      [] k = "refresh_token" -> {NoValue, "", "alt-refresh"}

XHeaders ==
    {MkHeaders(a, r) : a \in {NoValue, "", "header-access"},
                       r \in {NoValue, "", "header-refresh"}}

\* What resp.json() gives: a JSON object, a JSON document that is no object
\* (a list here), or ValueError on a body that is no JSON.
XBodies ==
    {[kind |-> "object", fields |-> MkDict(BodyKeys, v)] :
        v \in {f \in [BodyKeys -> UNION {XValues(k) : k \in BodyKeys}] :
                  \A k \in BodyKeys : f[k] \in XValues(k)}}
    \cup {[kind |-> "array", fields |-> <<>>], [kind |-> "invalid", fields |-> <<>>]}

\* The confirmation responses _extract_tokens is given.
XResponses == {[json |-> b, headers |-> h] : b \in XBodies, h \in XHeaders}

\* Python truthiness of an optional string.
Truthy(v) == v # NoValue /\ v # ""

\* a or b
Or(a, b) == IF Truthy(a) THEN a ELSE b

\* Mutant: the alternate naming is looked up before the primary naming.
ExtractField_AltFirst(body, headers, primary, alt, header) ==
    Or(Or(DictGet(body, alt, NoValue), DictGet(body, primary, NoValue)),
       DictGet(headers, header, NoValue))

\* Mutant: the headers are looked up before the body.
ExtractField_HeaderFirst(body, headers, primary, alt, header) ==
    Or(DictGet(headers, header, NoValue),
       Or(DictGet(body, primary, NoValue), DictGet(body, alt, NoValue)))

\* body.get(primary) or body.get(alt) or resp.headers.get(header)
ExtractField(body, headers, primary, alt, header) ==
    Or(Or(DictGet(body, primary, NoValue), DictGet(body, alt, NoValue)),
       DictGet(headers, header, NoValue))

RaisedAttributeError == [kind |-> "raise", exc |-> "AttributeError"]

\* Mutant: a pair is returned as soon as one of the two values was found.
ExtractResult_Either(access, refresh) ==
    IF Truthy(access) \/ Truthy(refresh)
    THEN Returned(TokenPair(access, refresh))
    ELSE Returned(None)

\* if access and refresh: return TokenPair(...); return None
ExtractResult(access, refresh) ==
    IF Truthy(access) /\ Truthy(refresh)
    THEN Returned(TokenPair(access, refresh))
    ELSE Returned(None)

\* _extract_tokens: body is {} when resp.json() raised ValueError; a parsed
\* document that is no dict has no get, and the lookup raises AttributeError.
ExtractTokens(resp) ==
    IF resp.json.kind = "array" THEN RaisedAttributeError
    ELSE LET body == IF resp.json.kind = "object" THEN resp.json.fields ELSE <<>>
             access  == ExtractField(body, resp.headers,
                                     AccessHeader, "access_token", AccessHeader)
             refresh == ExtractField(body, resp.headers,
                                     RefreshHeader, "refresh_token", RefreshHeader)
         IN ExtractResult(access, refresh)

InitExtract ==
    /\ ClientIdle
    /\ RefreshIdle
    /\ xresp \in XResponses
    /\ xout = None
    /\ PollIdle
    /\ AuthIdle
    /\ ScriptIdle

\* _extract_tokens(resp) is called.
Extract ==
    /\ xresp # None
    /\ xout = None
    /\ xout' = ExtractTokens(xresp)
    /\ UNCHANGED <<clientVars, refreshVars, xresp, pollVars, authVars, scriptVars>>

NextExtract == Extract

SpecExtract == InitExtract /\ [][NextExtract]_vars

(***************************************************************************)
(* jike.auth.poll_confirmation, and SpecPoll                               *)
(***************************************************************************)

POLL_INTERVAL_SEC == 1
POLL_TIMEOUT_SEC == 180

\* Mutant: the budget is one attempt short.
Attempts_OneShort == (POLL_TIMEOUT_SEC \div POLL_INTERVAL_SEC) - 1

\* attempts = POLL_TIMEOUT_SEC // POLL_INTERVAL_SEC
Attempts == POLL_TIMEOUT_SEC \div POLL_INTERVAL_SEC

\* jike.auth._get: the request it hands to requests.get.
Get(path) ==
    [ev |-> "get", method |-> "GET", url |-> <<API_BASE, path>>,
     headers |-> DEFAULT_HEADERS]

\* _get(f"/sessions.wait_for_confirmation?uuid={uuid}")
PollRequest(u) == Get(<<"/sessions.wait_for_confirmation?uuid=", u>>)

Uuids == {"uuid-1", "uuid-2"}

\* The 200 answers of the confirmation endpoint the poll loop is run
\* against: tokens in the body, under either naming, in the headers, spread
\* over both, a token missing, none at all, and bodies that are no JSON
\* object.
PollConfirmations ==
    {x \in XResponses :
        \/ /\ x.json.kind = "object"
           /\ x.headers \in {MkHeaders(NoValue, NoValue),
                              MkHeaders(NoValue, "header-refresh")}
           /\ x.json.fields \in
                {MkDict(BodyKeys, [k \in BodyKeys |-> NoValue]),
                 MkDict(BodyKeys, [k \in BodyKeys |->
                    IF k = AccessHeader THEN "body-access" ELSE NoValue]),
                 MkDict(BodyKeys, [k \in BodyKeys |->
                    IF k = AccessHeader THEN "body-access"
                    ELSE IF k = RefreshHeader THEN "body-refresh" ELSE NoValue]),
                 MkDict(BodyKeys, [k \in BodyKeys |->
                    IF k = "access_token" THEN "alt-access"
                    ELSE IF k = "refresh_token" THEN "alt-refresh" ELSE NoValue])}
        \/ /\ x.json.kind \in {"array", "invalid"}
           /\ x.headers \in {MkHeaders(NoValue, NoValue),
                              MkHeaders("header-access", "header-refresh")}}

\* What an error answer carries: no JSON, no token headers.
ErrorBody ==
    [json |-> [kind |-> "invalid", fields |-> <<>>],
     headers |-> MkHeaders(NoValue, NoValue)]

\* What a poll request may come to: a response, or a network exception.
PollOutcomes ==
    {[ev |-> "resp", status |-> 200, body |-> x] : x \in PollConfirmations}
    \cup {[ev |-> "resp", status |-> s, body |-> ErrorBody] : s \in {400, 404, 500}}
    \cup {NetworkError}

\* Mutant: a status that is neither 200 nor 400 ends the loop.
PollDecision_StrictOther(outcome) ==
    IF outcome = NetworkError THEN "sleep"
    ELSE IF outcome.status = 200 THEN "return"
    ELSE IF outcome.status = 400 THEN "sleep"
    ELSE "return"

\* Mutant: a 200 answer is slept on like any other.
PollDecision_SleepOn200(outcome) == "sleep"

\* The body of the for loop after the request: return what _extract_tokens
\* gives on 200; sleep and go on after a RequestException, a 400 and any
\* other status.
PollDecision(outcome) ==
    IF outcome = NetworkError THEN "sleep"
    ELSE IF outcome.status = 200 THEN "return"
    ELSE IF outcome.status = 400 THEN "sleep"
    ELSE "sleep"

\* Mutant: the branch for status 400 lacks its continue and runs into the
\* sleep at the end of the loop body.
PollSleeps_NoContinue(outcome) ==
    IF PollDecision(outcome) = "return" THEN <<>>
    ELSE IF outcome # NetworkError /\ outcome.status = 400
         THEN <<POLL_INTERVAL_SEC, POLL_INTERVAL_SEC>>
         ELSE <<POLL_INTERVAL_SEC>>

\* The calls of time.sleep one iteration of the loop makes, by the outcome
\* of its request: every branch that does not return sleeps once.
PollSleeps(outcome) ==
    IF PollDecision(outcome) = "return" THEN <<>>
    ELSE <<POLL_INTERVAL_SEC>>

InitPoll ==
    /\ ClientIdle
    /\ RefreshIdle
    /\ ExtractIdle
    /\ ppc = "loop"
    /\ uuid \in Uuids
    /\ preq = None
    /\ nreq = 0
    /\ n200 = 0
    /\ plast = None
    /\ sleeps = <<>>
    /\ presult = None
    /\ AuthIdle
    /\ ScriptIdle

\* An iteration of the for loop starts: the poll request goes out.
PollSend ==
    /\ ppc = "loop"
    /\ nreq < Attempts
    /\ preq' = PollRequest(uuid)
    /\ nreq' = nreq + 1
    /\ ppc' = "wait"
    /\ UNCHANGED <<clientVars, refreshVars, extractVars, scriptVars, authVars,
                   uuid, n200, plast, sleeps, presult>>

\* The request comes to its outcome and the rest of the iteration runs.
PollReceive ==
    /\ ppc = "wait"
    /\ \E outcome \in PollOutcomes :
        /\ plast' = outcome
        /\ sleeps' = sleeps \o PollSleeps(outcome)
        /\ n200' = IF outcome # NetworkError /\ outcome.status = 200
                   THEN n200 + 1 ELSE n200
        /\ IF PollDecision(outcome) = "return"
           THEN /\ presult' = ExtractTokens(outcome.body)
                /\ ppc' = "done"
           ELSE /\ ppc' = "loop"
                /\ UNCHANGED presult
    /\ UNCHANGED <<clientVars, refreshVars, extractVars, scriptVars, authVars, uuid, preq, nreq>>

\* range(attempts) is used up: return None.
PollTimeout ==
    /\ ppc = "loop"
    /\ nreq >= Attempts
    /\ presult' = Returned(None)
    /\ ppc' = "done"
    /\ UNCHANGED <<clientVars, refreshVars, extractVars, scriptVars, authVars,
                   uuid, preq, nreq, n200, plast, sleeps>>

NextPoll == PollSend \/ PollReceive \/ PollTimeout

SpecPoll == InitPoll /\ [][NextPoll]_vars

\* Every request comes to an outcome and the loop, once it can step, steps.
SpecPollFair == SpecPoll /\ WF_vars(NextPoll)

(***************************************************************************)
(* jike.auth.authenticate, and SpecAuth                                    *)
(***************************************************************************)

\* The request create_session posts: _post("/sessions.create").
CreateSessionRequest == Post("/sessions.create", <<>>, NoValue)

\* What /sessions.create may answer: a session identifier, a JSON object
\* without one, or an error status.
SessionResponses ==
    {[ev |-> "session_resp", status |-> 200, uuid |-> u] : u \in Uuids \cup {NoValue}}
    \cup {[ev |-> "session_resp", status |-> s, uuid |-> NoValue] : s \in {403, 500}}

RaisedKeyError == [kind |-> "raise", exc |-> "KeyError"]

\* sys.exit(code)
Exited(code) == [kind |-> "exit", code |-> code]

\* create_session from the arrival of its response on:
\* resp.raise_for_status(); return resp.json()["uuid"]
CreateSession(resp) ==
    IF resp = NetworkError THEN RaisedNetwork
    ELSE IF RaisesForStatus(resp.status) THEN RaisedHTTP(resp.status)
    ELSE IF resp.uuid = NoValue THEN RaisedKeyError
    ELSE Returned(resp.uuid)

InitAuth ==
    /\ ClientIdle
    /\ RefreshIdle
    /\ ExtractIdle
    /\ PollIdle
    /\ apc = "start"
    /\ alog = <<>>
    /\ aresult = None
    /\ ScriptIdle

\* authenticate is entered: create_session posts its request.
AuthCreateSession ==
    /\ apc = "start"
    /\ alog' = <<CreateSessionRequest>>
    /\ apc' = "session"
    /\ UNCHANGED <<clientVars, refreshVars, extractVars, scriptVars, pollVars, aresult>>

\* create_session ends: its error ends authenticate, or its uuid is handed to
\* poll_confirmation, which is entered.
AuthSessionResponse ==
    /\ apc = "session"
    /\ \E resp \in SessionResponses \cup {NetworkError} :
        LET o == CreateSession(resp) IN
        /\ alog' = Append(alog, resp)
        /\ IF o.kind = "return"
           THEN /\ uuid' = o.value
                /\ ppc' = "loop"
                /\ apc' = "poll"
                /\ UNCHANGED aresult
           ELSE /\ aresult' = o
                /\ apc' = "done"
                /\ UNCHANGED <<uuid, ppc>>
    /\ UNCHANGED <<clientVars, refreshVars, extractVars, scriptVars,
                   preq, nreq, n200, plast, sleeps, presult>>

\* Mutant: the polled pair is returned as it is.
AuthAfterPoll_NoRefresh ==
    /\ apc = "poll"
    /\ ppc = "done"
    /\ aresult' = IF presult = Returned(None) THEN Exited(1) ELSE presult
    /\ apc' = "done"
    /\ UNCHANGED <<clientVars, refreshVars, extractVars, scriptVars, pollVars, alog>>

\* poll_confirmation ended: what it raised ends authenticate; on None
\* authenticate exits with status 1; on a pair refresh_tokens is entered and
\* posts its request.
AuthAfterPoll ==
    /\ apc = "poll"
    /\ ppc = "done"
    /\ IF presult.kind = "raise"
       THEN /\ aresult' = presult
            /\ apc' = "done"
            /\ UNCHANGED alog
       ELSE IF presult.value = None
       THEN /\ aresult' = Exited(1)
            /\ apc' = "done"
            /\ UNCHANGED alog
       ELSE /\ alog' = Append(alog, RefreshTokensRequest(presult.value))
            /\ apc' = "refresh"
            /\ UNCHANGED aresult
    /\ UNCHANGED <<clientVars, refreshVars, extractVars, scriptVars, pollVars>>

\* refresh_tokens ends: authenticate returns what it returned, or its error
\* propagates.
AuthRefreshResponse ==
    /\ apc = "refresh"
    /\ \E resp \in RefreshResponses \cup {NetworkError} :
        /\ alog' = Append(alog, resp)
        /\ aresult' = refresh_tokens(presult.value, resp)
    /\ apc' = "done"
    /\ UNCHANGED <<clientVars, refreshVars, extractVars, scriptVars, pollVars>>

NextAuth ==
    \/ AuthCreateSession
    \/ AuthSessionResponse
    \/ PollSend
    \/ PollReceive
    \/ PollTimeout
    \/ AuthAfterPoll
    \/ AuthRefreshResponse

SpecAuth == InitAuth /\ [][NextAuth]_vars

(***************************************************************************)
(* The standalone scripts: scripts/client.py (notifications),              *)
(* scripts/find_users.py (main) and scripts/export.py (fetch_all_posts).   *)
(* Each has its own copy of the request executor, which takes the two      *)
(* tokens as arguments instead of holding them in an object.               *)
(***************************************************************************)

MaxScriptCalls == 3
MaxPages == 3

Scripts == {"client", "find_users", "export"}

\* The body of a response, as resp.content and resp.json() show it.
NoContent   == [kind |-> "empty"]
InvalidJson == [kind |-> "invalid"]
JsonObject(fields) == [kind |-> "object", fields |-> fields]

\* The JSON objects the API answers with: pages of posts with and without
\* a loadMoreKey (the empty string stands for a key that is falsy), with
\* and without posts, and objects without the data field.
ScriptObjects ==
    { EmptyDict,
      [data |-> <<"p1">>, loadMoreKey |-> "k1"],
      [data |-> <<"p2", "p3">>, loadMoreKey |-> "k2"],
      [data |-> <<"p4">>],
      [data |-> <<"p5">>, loadMoreKey |-> ""],
      [data |-> <<>>, loadMoreKey |-> "k1"],
      [loadMoreKey |-> "k2"] }

ScriptApiResponses ==
    {[ev |-> "resp", status |-> 200, body |-> b] :
        b \in {NoContent, InvalidJson} \cup {JsonObject(d) : d \in ScriptObjects}}
    \cup {[ev |-> "resp", status |-> s, body |-> NoContent] : s \in {401, 500}}

ScriptRefreshResponses ==
    {[ev |-> "refresh_resp", status |-> 200, headers |-> MkHeaders(a, r)] :
        a \in {NoValue, "a1", "a2"}, r \in {NoValue, "r1", "r2"}}
    \cup {[ev |-> "refresh_resp", status |-> 500, headers |-> MkHeaders(NoValue, NoValue)]}

\* hdrs of _call / _make_headers of export.py
ScriptHeaders(at) ==
    DictMerge(DEFAULT_HEADERS,
              [k \in {"Content-Type", AccessHeader} |->
                  IF k = AccessHeader THEN at ELSE "application/json"])

\* requests.request(method, f"{API_BASE}{path}", headers=hdrs, **kwargs)
ScriptApiRequest(c, at) ==
    [ev |-> "api", method |-> c.method, url |-> <<API_BASE, c.path>>,
     headers |-> ScriptHeaders(at), json |-> c.json]

\* The request _refresh (_refresh_tokens in export.py) posts.
ScriptRefreshRequest(rt) ==
    [ev |-> "refresh", method |-> "POST",
     url |-> <<API_BASE, "/app_auth_tokens.refresh">>,
     headers |-> DictMerge(DEFAULT_HEADERS,
                    [k \in {"Content-Type", RefreshHeader} |->
                        IF k = RefreshHeader THEN rt ELSE "application/json"]),
     json |-> "{}"]

\* What _refresh returns after a response that passed raise_for_status:
\* (headers.get("x-jike-access-token", ""),
\*  headers.get("x-jike-refresh-token", refresh_token)).
ScriptRefreshed(rt, headers) ==
    TokenPair(DictGet(headers, AccessHeader, ""),
              DictGet(headers, RefreshHeader, rt))

\* The tail of _call: resp.raise_for_status(), then
\* resp.json() if resp.content else {}.
ScriptFinish(resp) ==
    IF RaisesForStatus(resp.status) THEN RaisedHTTP(resp.status)
    ELSE IF resp.body = NoContent THEN Returned(EmptyDict)
    ELSE IF resp.body = InvalidJson THEN RaisedValueError
    ELSE Returned(resp.body.fields)

\* Whether the caller assigns the (at, rt) that _call returns to its own
\* variables: find_users.py and export.py do, scripts/client.py's _call
\* returns the data alone.
Threads(s) == s \in {"find_users", "export"}

\* search_keyword and fetch_profile of find_users.py catch
\* requests.HTTPError and go on; the other scripts let it end the run.
CatchesHTTPError(s) == s = "find_users"

\* body of fetch_user_posts: loadMoreKey is set only when it is truthy.
ExportBody(key) == IF Truthy(key) THEN key ELSE NoValue

\* The calls a script may make next.
ScriptCalls(s) ==
    CASE s = "client" ->
            IF scalls = 0
            THEN {[method |-> "GET", path |-> "/1.0/notifications/unread", json |-> NoValue]}
            ELSE {[method |-> "POST", path |-> "/1.0/notifications/list", json |-> "{}"]}
      [] s = "find_users" ->
            {[method |-> "POST", path |-> "/1.0/search/integrate", json |-> "keyword"],
             [method |-> "GET", path |-> "/1.0/users/profile?username=", json |-> NoValue]}
      [] s = "export" ->
            {[method |-> "POST", path |-> "/1.0/personalUpdate/single",
              json |-> ExportBody(skey)]}

\* How many calls the script makes at most: notifications makes two, the
\* loops of the other scripts are cut off at a bound.
CallBudget(s) ==
    CASE s = "client" -> 2
      [] s = "find_users" -> MaxScriptCalls
      [] s = "export" -> MaxPages

\* Mutant: the loop goes on as long as there is a key, posts or no posts.
PageStops_KeyOnly(key, posts) == ~Truthy(key)

\* if not load_more_key or not posts: break (fetch_all_posts)
PageStops(key, posts) == ~Truthy(key) \/ posts = <<>>

InitScripts ==
    /\ ClientIdle
    /\ RefreshIdle
    /\ ExtractIdle
    /\ PollIdle
    /\ AuthIdle
    /\ script \in Scripts
    /\ spc = "idle"
    /\ sthread = TokenPair("a0", "r0")
    /\ sframe = None
    /\ scall = None
    /\ sretry = TRUE
    /\ slog = <<>>
    /\ slatest = sthread
    /\ scalls = 0
    /\ sresult = None
    /\ skey = NoValue
    /\ sposts = <<>>
    /\ sfetched = <<>>

\* The caller calls _call (through feed, search_keyword, fetch_user_posts
\* and the like) with its at and rt: the first request goes out.
ScriptCall ==
    /\ spc = "idle"
    /\ scalls < CallBudget(script)
    /\ \E c \in ScriptCalls(script) :
        /\ scall' = c
        /\ slog' = <<ScriptApiRequest(c, sthread.access_token)>>
    /\ sframe' = sthread
    /\ sretry' = TRUE
    /\ scalls' = scalls + 1
    /\ sresult' = None
    /\ spc' = "api"
    /\ UNCHANGED <<clientVars, refreshVars, extractVars, pollVars, authVars,
                   script, sthread, slatest, skey, sposts, sfetched>>

\* _call is left with outcome o, a returned value or an exception, and the
\* caller goes on: it takes over the pair _call returns if it is a script
\* that threads the pair, export.py adds the page to all_posts and decides
\* whether to fetch another, and an exception the caller does not catch
\* ends the run.
CallEnds(o) ==
    /\ sresult' = o
    /\ IF o.kind = "return"
       THEN /\ sthread' = IF Threads(script) THEN sframe ELSE sthread
            /\ IF script = "export"
               THEN LET posts == DictGet(o.value, "data", <<>>)
                        key == DictGet(o.value, "loadMoreKey", NoValue)
                    IN /\ sposts' = sposts \o posts
                       /\ skey' = key
                       /\ sfetched' = Append(sfetched, [sent |-> scall.json, data |-> o.value])
                       /\ spc' = IF PageStops(key, posts) THEN "end" ELSE "idle"
               ELSE /\ spc' = IF script = "client" /\ scalls = 2 THEN "end" ELSE "idle"
                    /\ UNCHANGED <<skey, sposts, sfetched>>
       ELSE /\ spc' = IF o.exc = "HTTPError" /\ CatchesHTTPError(script)
                      THEN "idle" ELSE "end"
            /\ UNCHANGED <<sthread, skey, sposts, sfetched>>

\* requests.request raised: no script catches a network exception of an
\* API request.
ScriptApiNetworkError ==
    /\ spc = "api"
    /\ slog' = Append(slog, NetworkError)
    /\ CallEnds(RaisedNetwork)
    /\ UNCHANGED <<clientVars, refreshVars, extractVars, pollVars, authVars,
                   script, sframe, scall, sretry, slatest, scalls>>

\* The response to an API request arrives: either _refresh is called with
\* the frame's refresh token and posts its request, or the call ends.
ScriptApiResponse ==
    /\ spc = "api"
    /\ \E resp \in ScriptApiResponses :
        IF resp.status = 401 /\ sretry
        THEN /\ slog' = slog \o <<resp, ScriptRefreshRequest(sframe.refresh_token)>>
             /\ spc' = "refresh"
             /\ UNCHANGED <<sresult, sthread, skey, sposts, sfetched>>
        ELSE /\ slog' = Append(slog, resp)
             /\ CallEnds(ScriptFinish(resp))
    /\ UNCHANGED <<clientVars, refreshVars, extractVars, pollVars, authVars,
                   script, sframe, scall, sretry, slatest, scalls>>

\* requests.post raised inside _refresh.
ScriptRefreshNetworkError ==
    /\ spc = "refresh"
    /\ slog' = Append(slog, NetworkError)
    /\ CallEnds(RaisedNetwork)
    /\ UNCHANGED <<clientVars, refreshVars, extractVars, pollVars, authVars,
                   script, sframe, scall, sretry, slatest, scalls>>

\* The refresh response arrives: raise_for_status ends the call, or _call
\* calls itself with the pair _refresh returned and retry=False.
ScriptRefreshResponse ==
    /\ spc = "refresh"
    /\ \E resp \in ScriptRefreshResponses :
        IF RaisesForStatus(resp.status)
        THEN /\ slog' = Append(slog, resp)
             /\ CallEnds(RaisedHTTP(resp.status))
             /\ UNCHANGED <<sframe, sretry, slatest>>
        ELSE /\ sframe' = ScriptRefreshed(sframe.refresh_token, resp.headers)
             /\ slatest' = sframe'
             /\ sretry' = FALSE
             /\ slog' = slog \o <<resp, ScriptApiRequest(scall, sframe'.access_token)>>
             /\ spc' = "api"
             /\ UNCHANGED <<sresult, sthread, skey, sposts, sfetched>>
    /\ UNCHANGED <<clientVars, refreshVars, extractVars, pollVars, authVars,
                   script, scall, scalls>>

NextScripts ==
    \/ ScriptCall
    \/ ScriptApiNetworkError
    \/ ScriptApiResponse
    \/ ScriptRefreshNetworkError
    \/ ScriptRefreshResponse

SpecScripts == InitScripts /\ [][NextScripts]_vars

\* export.py alone: fetch_all_posts.
InitExport == InitScripts /\ script = "export"

SpecExport == InitExport /\ [][NextScripts]_vars

(***************************************************************************)
(* The package as a whole: a process either drives a JikeClient or runs    *)
(* authenticate, so every kind of request the package issues occurs        *)
(***************************************************************************)

InitPackage == Init \/ InitAuth

NextPackage == Next \/ NextAuth

SpecPackage == InitPackage /\ [][NextPackage]_vars

(***************************************************************************)
(* Claims about JikeClient._request (checked under Spec)                   *)
(***************************************************************************)

ApiReqs      == SelectSeq(trace, LAMBDA e : e.ev = "api")
ApiResps     == SelectSeq(trace, LAMBDA e : e.ev = "resp")
RefreshReqs  == SelectSeq(trace, LAMBDA e : e.ev = "refresh")
RefreshResps == SelectSeq(trace, LAMBDA e : e.ev = "refresh_resp")

InCall == pc \in {"api", "refresh", "done"}

\* The first attempt of a call with retry enabled was answered 401 and the
\* second attempt was answered with a success status.
Got401ThenSuccess ==
    /\ InCall
    /\ call.retry_on_401
    /\ Len(ApiResps) >= 2
    /\ ApiResps[1].status = 401
    /\ ~RaisesForStatus(ApiResps[2].status)

\* C1: a call with retry enabled whose first attempt gets 401 and whose
\* second attempt gets a success has sent, in this order, the request, one
\* refresh call and the same request again (same method, URL and body) with
\* the access token the refresh yielded; it sent nothing else, and it
\* returns the second response's body ({} when that body is empty).
C1_RetryOnceAfterRefresh ==
    Got401ThenSuccess =>
        /\ pc = "done"
        /\ Len(trace) = 6
        /\ Len(ApiReqs) = 2 /\ Len(RefreshReqs) = 1
        /\ trace[1].ev = "api" /\ trace[3].ev = "refresh" /\ trace[5].ev = "api"
        /\ trace[4].ev = "refresh_resp"
        /\ trace[5].method = trace[1].method
        /\ trace[5].url = trace[1].url
        /\ trace[5].json = trace[1].json
        /\ trace[5].headers[AccessHeader] =
              DictGet(trace[4].headers, AccessHeader, trace[1].headers[AccessHeader])
        /\ trace[6].content = "" => result = Returned(EmptyDict)
        /\ JsonValid(trace[6].content) => result = Returned(JsonLoads(trace[6].content))

C1_Witness ==
    /\ Got401ThenSuccess
    /\ pc = "done"
    /\ trace[1].headers[AccessHeader] = "a0"
    /\ trace[5].headers[AccessHeader] = "a1"
    /\ result = Returned([data |-> "ok"])

\* Both attempts of a call with retry enabled were answered 401.
Got401Twice ==
    /\ InCall
    /\ call.retry_on_401
    /\ Len(ApiResps) >= 2
    /\ ApiResps[1].status = 401
    /\ ApiResps[2].status = 401

\* C2: when the attempt before and the attempt after the refresh both get
\* 401, the call is over with the HTTP error of the second 401 raised,
\* exactly two API requests and exactly one refresh call sent.
C2_No401RetryLoop ==
    Got401Twice =>
        /\ pc = "done"
        /\ result = RaisedHTTP(401)
        /\ Len(ApiReqs) = 2
        /\ Len(RefreshReqs) = 1
        /\ Len(trace) = 6

C2_Witness ==
    Got401Twice /\ pc = "done" /\ result = RaisedHTTP(401)

\* The first attempt was answered with an error status other than 401.
GotOtherErrorFirst ==
    /\ InCall
    /\ Len(ApiResps) >= 1
    /\ RaisesForStatus(ApiResps[1].status)
    /\ ApiResps[1].status # 401

\* C3: a first attempt answered with an error status other than 401 ends the
\* call with that HTTP error raised; one API request and no refresh call
\* were sent.
C3_NoRetryOnOtherError ==
    GotOtherErrorFirst =>
        /\ pc = "done"
        /\ result = RaisedHTTP(ApiResps[1].status)
        /\ Len(ApiReqs) = 1
        /\ Len(RefreshReqs) = 0
        /\ Len(trace) = 2

C3_Witness ==
    /\ GotOtherErrorFirst /\ call.retry_on_401
    /\ result = RaisedHTTP(500) /\ Len(ApiReqs) = 1

\* The refresh call a 401 triggered was answered with an error status.
RefreshGotError ==
    /\ InCall
    /\ Len(RefreshResps) >= 1
    /\ RaisesForStatus(RefreshResps[1].status)

\* C5: when the refresh call triggered by a 401 gets an error status, the
\* call is over with that HTTP error raised and the request was not sent
\* again: one API request and one refresh call in all.
C5_RefreshFailurePropagates ==
    RefreshGotError =>
        /\ pc = "done"
        /\ result = RaisedHTTP(RefreshResps[1].status)
        /\ Len(ApiReqs) = 1
        /\ Len(RefreshReqs) = 1
        /\ ApiResps[1].status = 401
        /\ Len(trace) = 4

C5_Witness ==
    /\ RefreshGotError
    /\ result = RaisedHTTP(500)
    /\ trace[2].status = 401

(***************************************************************************)
(* Claims about the refresh (checked under SpecRefresh)                    *)
(***************************************************************************)

\* The value a token of the refreshed pair must have: the header's when the
\* response has the header, the prior pair's otherwise.
Expected(headers, name, prior) ==
    IF name \in DOMAIN headers THEN headers[name] ELSE prior

RefreshSucceeded == rin.resp # NetworkError /\ ~RaisesForStatus(rin.resp.status)

\* C4: after a successful refresh, by JikeClient._refresh or by
\* refresh_tokens, each token of the resulting pair is the value of its
\* response header when the header is present and the prior pair's value
\* when it is absent.
C4_RefreshKeepsMissing ==
    /\ (pc = "done" /\ RefreshSucceeded) =>
          /\ tokens.access_token =
                Expected(rin.resp.headers, AccessHeader, rin.pair.access_token)
          /\ tokens.refresh_token =
                Expected(rin.resp.headers, RefreshHeader, rin.pair.refresh_token)
    /\ (rauth # None /\ RefreshSucceeded) =>
          /\ rauth.outcome.kind = "return"
          /\ rauth.outcome.value.access_token =
                Expected(rin.resp.headers, AccessHeader, rin.pair.access_token)
          /\ rauth.outcome.value.refresh_token =
                Expected(rin.resp.headers, RefreshHeader, rin.pair.refresh_token)

\* (a1, r1) refreshed with only a new access-token header a2 gives (a2, r1),
\* from both functions.
C4_Witness ==
    /\ pc = "done" /\ rauth # None
    /\ rin.pair = TokenPair("a1", "r1")
    /\ rin.resp = [ev |-> "refresh_resp", status |-> 200,
                   headers |-> MkHeaders("a2", NoValue)]
    /\ tokens = TokenPair("a2", "r1")
    /\ rauth.outcome = Returned(TokenPair("a2", "r1"))

(***************************************************************************)
(* Claims about _extract_tokens (checked under SpecExtract)                *)
(***************************************************************************)

\* The sources of a confirmation response, in the order they are consulted:
\* 1 the body under the primary naming, 2 the body under the alternate
\* naming, 3 the response headers. A body that is no JSON object has no
\* fields.
BodyField(x, k) ==
    IF x.json.kind = "object" /\ k \in DOMAIN x.json.fields
    THEN x.json.fields[k] ELSE NoValue

HeaderField(x, k) == IF k \in DOMAIN x.headers THEN x.headers[k] ELSE NoValue

SrcAccess(x, i) ==
    CASE i = 1 -> BodyField(x, "x-jike-access-token")
      [] i = 2 -> BodyField(x, "access_token")
      [] i = 3 -> HeaderField(x, "x-jike-access-token")

SrcRefresh(x, i) ==
    CASE i = 1 -> BodyField(x, "x-jike-refresh-token")
      [] i = 2 -> BodyField(x, "refresh_token")
      [] i = 3 -> HeaderField(x, "x-jike-refresh-token")

Found(v) == v \notin {NoValue, ""}

\* The value of the earliest source that holds one, NoValue when none does.
Earliest(x, Src(_, _)) ==
    IF \E i \in 1..3 : Found(Src(x, i))
    THEN Src(x, CHOOSE i \in 1..3 :
                    Found(Src(x, i)) /\ \A j \in 1..(i - 1) : ~Found(Src(x, j)))
    ELSE NoValue

\* What the per-token resolution gives for a response.
Resolved(x) ==
    IF Found(Earliest(x, SrcAccess)) /\ Found(Earliest(x, SrcRefresh))
    THEN Returned(TokenPair(Earliest(x, SrcAccess), Earliest(x, SrcRefresh)))
    ELSE Returned(None)

Complete(x, i) == Found(SrcAccess(x, i)) /\ Found(SrcRefresh(x, i))

\* C6: _extract_tokens resolves each token on its own (body under the
\* primary naming, else body under the alternate naming, else header) and
\* returns the pair of the two resolved values when both were found, None
\* otherwise.
C6_ExtractPerToken ==
    xout # None => xout = Resolved(xresp)

\* The part of C6 that the code satisfies: whenever _extract_tokens returns,
\* it returns what the per-token resolution gives.
ExtractReturnsResolved ==
    (xout # None /\ xout.kind = "return") => xout = Resolved(xresp)

\* C7 as claimed: what _extract_tokens returns is the pair of the earliest
\* source that holds both values, None when no source holds both.
C7_FirstCompletePairWins ==
    (xout # None /\ xout.kind = "return") =>
        IF \E i \in 1..3 : Complete(xresp, i)
        THEN LET i == CHOOSE i \in 1..3 :
                        Complete(xresp, i) /\ \A j \in 1..(i - 1) : ~Complete(xresp, j)
             IN xout = Returned(TokenPair(SrcAccess(xresp, i), SrcRefresh(xresp, i)))
        ELSE xout = Returned(None)

\* C7 as amended: the sources are consulted in order for each token
\* separately. Every pair returned holds, for each token, the value of the
\* earliest source that has that token, so that the earliest source holding
\* both values supplies the whole pair only when no earlier source holds
\* either value; None is returned only when no source holds both values.
C7_EarliestSourcePerToken ==
    (xout # None /\ xout.kind = "return") =>
        /\ xout.value # None =>
              /\ xout.value.access_token = Earliest(xresp, SrcAccess)
              /\ xout.value.refresh_token = Earliest(xresp, SrcRefresh)
              /\ \A i \in 1..3 :
                    ( /\ Complete(xresp, i)
                      /\ \A j \in 1..(i - 1) :
                            ~Found(SrcAccess(xresp, j)) /\ ~Found(SrcRefresh(xresp, j)) )
                    => xout.value = TokenPair(SrcAccess(xresp, i), SrcRefresh(xresp, i))
        /\ xout.value = None => \A i \in 1..3 : ~Complete(xresp, i)

\* The headers hold a complete pair, the body holds an access token only:
\* the returned pair mixes the two sources.
C7_Witness ==
    /\ xout = Returned(TokenPair("body-access", "header-refresh"))
    /\ Complete(xresp, 3)
    /\ SrcAccess(xresp, 3) = "header-access"
    /\ ~Complete(xresp, 1) /\ ~Complete(xresp, 2)

(***************************************************************************)
(* Claims about poll_confirmation (checked under SpecPoll)                 *)
(***************************************************************************)

Non200(outcome) == outcome = NetworkError \/ outcome.status # 200

\* The latest poll request was answered 200 and _extract_tokens finds a
\* pair in the answer.
GotTokens ==
    /\ plast # None
    /\ ~Non200(plast)
    /\ ExtractTokens(plast.body).kind = "return"
    /\ ExtractTokens(plast.body).value # None

\* C8: when no poll request was answered 200, poll_confirmation ends only
\* by returning None, and only after exactly
\* POLL_TIMEOUT_SEC // POLL_INTERVAL_SEC = 180 requests.
C8_TimeoutAfterBudget ==
    (ppc = "done" /\ n200 = 0) =>
        /\ presult = Returned(None)
        /\ nreq = POLL_TIMEOUT_SEC \div POLL_INTERVAL_SEC
        /\ nreq = 180

C8_Witness ==
    /\ ppc = "done" /\ n200 = 0
    /\ presult = Returned(None)
    /\ nreq = 180
    /\ plast # NetworkError /\ plast.status = 400

\* C9 as claimed: a 200 answer without a complete pair does not end the
\* loop while attempts are left.
C9_NoTokens200KeepsPolling ==
    ( /\ plast # None
      /\ ~Non200(plast)
      /\ ExtractTokens(plast.body) = Returned(None)
      /\ nreq < POLL_TIMEOUT_SEC \div POLL_INTERVAL_SEC )
    => ppc # "done"

\* C10: an outcome other than 200 (a 400, another status, a network
\* exception) neither ends the loop while attempts are left nor raises; and
\* when the k-th request is the first answered 200, with tokens, the call
\* returns these tokens with k requests issued: one after each of the k - 1
\* failed attempts, each followed by its sleep.
C10_Non200KeepsPolling ==
    /\ (plast # None /\ Non200(plast)) =>
          /\ nreq < POLL_TIMEOUT_SEC \div POLL_INTERVAL_SEC => ppc # "done"
          /\ presult # None => presult = Returned(None)
    /\ (ppc = "done" /\ GotTokens) =>
          /\ presult = ExtractTokens(plast.body)
          /\ n200 = 1
          /\ nreq = Len(sleeps) + 1
          /\ nreq <= POLL_TIMEOUT_SEC \div POLL_INTERVAL_SEC

\* The third request is the first answered 200, after a non-200 status and
\* two sleeps.
C10_Witness ==
    /\ ppc = "done" /\ GotTokens
    /\ nreq = 3 /\ Len(sleeps) = 2
    /\ presult = Returned(TokenPair("body-access", "body-refresh"))

\* C11: once a poll request is answered 200 with tokens _extract_tokens
\* finds, poll_confirmation is over and has returned exactly that pair; no
\* request follows that answer and no sleep does (every sleep made belongs
\* to one of the earlier, failed attempts).
C11_TokensEndLoop ==
    GotTokens =>
        /\ ppc = "done"
        /\ presult = Resolved(plast.body)
        /\ presult.value \in {TokenPair(a, r) : a \in {"body-access", "alt-access", "header-access"},
                                                r \in {"body-refresh", "alt-refresh", "header-refresh"}}
        /\ Len(sleeps) = nreq - 1

\* The very first answer carries the tokens: one request, no sleep.
C11_Witness ==
    /\ GotTokens /\ ppc = "done"
    /\ nreq = 1 /\ sleeps = <<>>
    /\ presult = Returned(TokenPair("alt-access", "alt-refresh"))

(***************************************************************************)
(* Claims about authenticate (checked under SpecAuth)                      *)
(***************************************************************************)

\* The refresh requests authenticate's refresh_tokens step has posted.
AuthRefreshReqs ==
    SelectSeq(alog, LAMBDA e :
        e.ev = "post" /\ e.url = <<API_BASE, "/app_auth_tokens.refresh">>)

\* create_session got its answer, and the answer gave a session identifier.
SessionAnswered == Len(alog) >= 2
SessionOk ==
    /\ SessionAnswered
    /\ alog[2] # NetworkError
    /\ alog[2].status = 200
    /\ alog[2].uuid # NoValue

PolledPair == ppc = "done" /\ presult.kind = "return" /\ presult.value # None

\* C12: authenticate runs create_session, then poll_confirmation with the
\* uuid create_session returned, then refresh_tokens. No poll request goes
\* out unless create_session returned; refresh_tokens is called at most
\* once, only after polling returned a pair and on that pair, and what it
\* returns is what authenticate returns; when polling returns None the
\* process exits with status 1 without a refresh call.
C12_AuthenticateOrder ==
    /\ apc # "start" => alog[1] = CreateSessionRequest
    /\ nreq > 0 =>
          /\ SessionOk
          /\ uuid = alog[2].uuid
          /\ preq = PollRequest(alog[2].uuid)
    /\ (SessionAnswered /\ ~SessionOk) =>
          /\ nreq = 0 /\ ppc = "off"
          /\ apc = "done" /\ aresult.kind = "raise"
          /\ Len(AuthRefreshReqs) = 0
    /\ Len(AuthRefreshReqs) <= 1
    /\ Len(AuthRefreshReqs) = 1 =>
          /\ PolledPair
          /\ Len(alog) >= 3
          /\ alog[3].method = "POST"
          /\ alog[3].headers[RefreshHeader] = presult.value.refresh_token
    /\ (apc = "done" /\ ppc = "done" /\ presult = Returned(None)) =>
          /\ aresult = Exited(1)
          /\ Len(AuthRefreshReqs) = 0
    /\ (apc = "done" /\ PolledPair) =>
          /\ Len(AuthRefreshReqs) = 1
          /\ Len(alog) = 4
          /\ IF alog[4] # NetworkError /\ ~RaisesForStatus(alog[4].status)
             THEN aresult = Returned(TokenPair(
                    Expected(alog[4].headers, AccessHeader, presult.value.access_token),
                    Expected(alog[4].headers, RefreshHeader, presult.value.refresh_token)))
             ELSE aresult.kind = "raise"

\* The full flow: a session, a pair polled at the second attempt, the pair
\* refreshed and returned.
C12_Witness ==
    /\ apc = "done"
    /\ uuid = "uuid-2"
    /\ nreq = 2
    /\ presult = Returned(TokenPair("body-access", "body-refresh"))
    /\ Len(AuthRefreshReqs) = 1
    /\ aresult = Returned(TokenPair("a1", "body-refresh"))

(***************************************************************************)
(* Further claims about JikeClient (checked under Spec)                    *)
(***************************************************************************)

\* C13: the pair a client holds changes only through a successful refresh.
\* Every step that changes tokens is the arrival of a refresh response that
\* passed raise_for_status, and the pair installed is built from that
\* response and the prior pair; a first-attempt answer, an error, a
\* network failure and a failed refresh all leave tokens as they were.
C13_TokensChangeOnlyByRefresh ==
    [][tokens' # tokens =>
          /\ pc = "refresh" /\ pc' = "api"
          /\ Len(trace') = Len(trace) + 2
          /\ LET resp == trace'[Len(trace) + 1] IN
                /\ resp.ev = "refresh_resp"
                /\ ~RaisesForStatus(resp.status)
                /\ tokens' = TokenPair(
                       Expected(resp.headers, AccessHeader, tokens.access_token),
                       Expected(resp.headers, RefreshHeader, tokens.refresh_token))]_vars

\* An earlier call refreshed the pair; the present call was answered with
\* a failed refresh and the client still holds the refreshed pair.
C13_Witness ==
    /\ pc = "done"
    /\ calls = 2
    /\ tokens = TokenPair("a1", "r1")
    /\ Len(trace) = 4
    /\ trace[3].headers[RefreshHeader] = "r1"
    /\ trace[4] # NetworkError
    /\ trace[4].status = 500
    /\ result = RaisedHTTP(500)

\* A pair both of whose tokens are non-empty strings.
Usable(t) ==
    /\ t.access_token \notin {"", NoValue}
    /\ t.refresh_token \notin {"", NoValue}

\* C14: every authenticated request and every refresh call is issued with
\* a pair whose access token and refresh token are both non-empty: while a
\* request is under way the client's pair is usable, and no request of the
\* call carried an empty token header.
C14_RequestsUseUsablePair ==
    /\ pc \in {"api", "refresh"} => Usable(tokens)
    /\ \A i \in DOMAIN trace :
          /\ trace[i].ev = "api" => trace[i].headers[AccessHeader] # ""
          /\ trace[i].ev = "refresh" => trace[i].headers[RefreshHeader] # ""

(***************************************************************************)
(* Claims about every request of the package (checked under SpecPackage)   *)
(***************************************************************************)

\* The requests issued so far: those of the present _request call, those
\* of authenticate's create_session and refresh_tokens steps, and the
\* latest poll request.
IssuedRequests ==
    {trace[i] : i \in {j \in DOMAIN trace : trace[j].ev \in {"api", "refresh"}}}
    \cup {alog[i] : i \in {j \in DOMAIN alog : alog[j].ev = "post"}}
    \cup ({preq} \ {None})

CarriesStaticHeaders(req) ==
    /\ {"Origin", "User-Agent", "Accept", "DNT"} \subseteq DOMAIN req.headers
    /\ \A k \in {"Origin", "User-Agent", "Accept", "DNT"} :
          req.headers[k] = DEFAULT_HEADERS[k]

\* C15: every request the package issues carries the four static headers;
\* an authenticated API request carries the access token the client holds
\* when it is issued (the first attempt the pair of before the refresh, the
\* retry the refreshed pair), and a refresh request carries the refresh
\* token current at the time (the client's, or the polled pair's).
C15_RequestHeaders ==
    /\ \A req \in IssuedRequests : CarriesStaticHeaders(req)
    /\ (InCall /\ Len(trace) <= 4) =>
          trace[1].headers[AccessHeader] = tokens.access_token
    /\ (InCall /\ Len(trace) >= 3) =>
          /\ trace[3].ev = "refresh"
          /\ Len(trace) <= 4 => trace[3].headers[RefreshHeader] = tokens.refresh_token
    /\ (InCall /\ Len(trace) >= 5) =>
          /\ trace[5].ev = "api"
          /\ trace[5].headers[AccessHeader] = tokens.access_token
          /\ tokens.access_token =
                Expected(trace[4].headers, AccessHeader, trace[1].headers[AccessHeader])
          /\ tokens.refresh_token =
                Expected(trace[4].headers, RefreshHeader, trace[3].headers[RefreshHeader])
    /\ Len(AuthRefreshReqs) = 1 =>
          AuthRefreshReqs[1].headers[RefreshHeader] = presult.value.refresh_token

\* authenticate has issued its three kinds of request.
C15_Witness ==
    /\ apc = "done"
    /\ preq # None
    /\ Len(AuthRefreshReqs) = 1
    /\ Cardinality(IssuedRequests) = 3

\* A client has issued an API request, a refresh request and the retry.
C15_ClientWitness ==
    /\ pc = "done"
    /\ Len(trace) = 6
    /\ Cardinality(IssuedRequests) = 3
    /\ trace[5].headers[AccessHeader] = "a2"

(***************************************************************************)
(* Claims about what _request returns and raises (checked under Spec)      *)
(***************************************************************************)

\* The call ended on the answer to an API request, first attempt or retry,
\* and the answer has a success status.
EndedOnSuccess ==
    /\ pc = "done"
    /\ trace[Len(trace)].ev = "resp"
    /\ ~RaisesForStatus(trace[Len(trace)].status)

\* C16: a call that ends on a successful response with an empty body
\* returns the empty dict; one that ends on a successful response whose
\* body is a JSON document returns that document (a non-empty body that is
\* no JSON makes resp.json() raise, and nothing is returned).
C16_EmptyBodyEmptyDict ==
    EndedOnSuccess =>
        LET content == trace[Len(trace)].content IN
        /\ content = "" => result = Returned(EmptyDict)
        /\ content = "{\"data\":\"ok\"}" => result = Returned([data |-> "ok"])
        /\ content = "{\"data\":\"other\"}" => result = Returned([data |-> "other"])
        /\ content = "<html>" => result.kind = "raise"

\* A retry answered 200 with an empty body.
C16_Witness ==
    /\ EndedOnSuccess
    /\ Len(trace) = 6
    /\ trace[6].content = ""
    /\ result = Returned(EmptyDict)

\* C17: a network exception of an API request or of the refresh call ends
\* the call at once and is what the caller gets: it is the last event of
\* the call, no request follows it, a failed first attempt is followed by
\* no refresh, and a failed refresh by no second attempt and no new pair.
C17_NetworkErrorSurfaces ==
    \A i \in DOMAIN trace :
        trace[i] = NetworkError =>
            /\ i = Len(trace)
            /\ pc = "done"
            /\ result = RaisedNetwork
            /\ i = 2 => (Len(ApiReqs) = 1 /\ Len(RefreshReqs) = 0)
            /\ i = 4 =>
                  /\ Len(ApiReqs) = 1 /\ Len(RefreshReqs) = 1
                  /\ tokens.access_token = trace[1].headers[AccessHeader]
                  /\ tokens.refresh_token = trace[3].headers[RefreshHeader]

\* The refresh call of a second call raised, after a first call installed
\* a new pair.
C17_Witness ==
    /\ pc = "done"
    /\ Len(trace) = 4
    /\ trace[4] = NetworkError
    /\ tokens = TokenPair("a2", "r2")
    /\ result = RaisedNetwork

\* The retry of a call raised.
C17_RetryWitness ==
    /\ pc = "done"
    /\ Len(trace) = 6
    /\ trace[6] = NetworkError
    /\ result = RaisedNetwork

\* The present call was entered with retry_on_401=False.
RetryDisabled == InCall /\ ~call.retry_on_401

\* C18: a call entered with retry_on_401=False issues one API request and
\* no refresh request, whatever the answer, and an error status, 401
\* included, is raised as the HTTP error of that status.
C18_NoRefreshWhenDisabled ==
    RetryDisabled =>
        /\ Len(ApiReqs) = 1
        /\ Len(RefreshReqs) = 0
        /\ Len(trace) <= 2
        /\ Len(trace) = 2 =>
              /\ pc = "done"
              /\ (trace[2] # NetworkError /\ RaisesForStatus(trace[2].status)) =>
                    result = RaisedHTTP(trace[2].status)

\* A call with retry disabled was answered 401.
C18_Witness ==
    /\ RetryDisabled
    /\ pc = "done"
    /\ trace[2] # NetworkError
    /\ trace[2].status = 401
    /\ result = RaisedHTTP(401)

(***************************************************************************)
(* Further claims about poll_confirmation (checked under SpecPoll)         *)
(***************************************************************************)

\* The attempts whose request has come to its outcome.
AttemptsEnded == IF ppc = "wait" THEN nreq - 1 ELSE nreq

\* C19: every sleep of poll_confirmation lasts POLL_INTERVAL_SEC (one
\* second); there is one sleep for every attempt that ended otherwise than
\* with HTTP 200, so a request that goes out has exactly one sleep between
\* it and each request before it, and none before the first.
C19_OneSleepPerFailedAttempt ==
    /\ \A i \in DOMAIN sleeps : sleeps[i] = POLL_INTERVAL_SEC /\ sleeps[i] = 1
    /\ Len(sleeps) = AttemptsEnded - n200
    /\ ppc = "wait" => Len(sleeps) = nreq - 1
    /\ nreq = 0 => sleeps = <<>>

\* Two attempts answered 400 and a network failure, then a 200.
C19_Witness ==
    /\ ppc = "done"
    /\ nreq = 3
    /\ n200 = 1
    /\ sleeps = <<1, 1>>

\* C20: poll_confirmation ends by returning a TokenPair or None, and never
\* sends more than POLL_TIMEOUT_SEC // POLL_INTERVAL_SEC = 180 requests.
C20_PollReturnsWithinBudget ==
    /\ nreq <= POLL_TIMEOUT_SEC \div POLL_INTERVAL_SEC
    /\ nreq <= 180
    /\ ppc = "done" => presult.kind = "return"

\* What does hold of the loop's end: under SpecPollFair the call comes to
\* an end, by a return or by the exception of _extract_tokens, within the
\* budget of requests.
PollEnds == <>(ppc = "done" /\ nreq <= 180)

(***************************************************************************)
(* Further claims about _extract_tokens (checked under SpecExtract)        *)
(***************************************************************************)

\* The pair the response headers alone give, None when they lack a token.
HeaderPair(x) ==
    IF Found(HeaderField(x, AccessHeader)) /\ Found(HeaderField(x, RefreshHeader))
    THEN Returned(TokenPair(HeaderField(x, AccessHeader), HeaderField(x, RefreshHeader)))
    ELSE Returned(None)

\* C22: _extract_tokens never raises; for a body that is no JSON or is
\* JSON but no object it returns what the headers give, the header pair
\* or None.
C22_ExtractNeverRaises ==
    xout # None =>
        /\ xout.kind = "return"
        /\ xresp.json.kind # "object" => xout = HeaderPair(xresp)

(***************************************************************************)
(* Claims about sequences of calls on one JikeClient (checked under Spec)  *)
(***************************************************************************)

\* C24: a call issues at most two API requests and at most one refresh
\* request and is over after at most six events (the frame that sent the
\* second request cannot refresh again); after N calls the client has sent
\* at most 2N API requests and at most N refresh requests.
C24_RequestsPerCallBounded ==
    /\ Len(ApiReqs) <= 2
    /\ Len(RefreshReqs) <= 1
    /\ Len(trace) <= 6
    /\ Len(trace) = 6 => pc = "done"
    /\ (pc = "api" /\ Len(ApiReqs) = 2) => ~retry
    /\ sent.api <= 2 * calls
    /\ sent.refresh <= calls

\* Every one of the calls refreshed and retried.
C24_Witness ==
    /\ calls = MaxCalls
    /\ pc = "done"
    /\ sent.api = 2 * calls
    /\ sent.refresh = calls

\* C25: over a sequence of calls, every API request carries the access
\* token of the most recent successful refresh, or of the pair the client
\* was built with when there was none, and every refresh request carries
\* the refresh token of the most recent successful refresh; the client
\* holds that pair between calls too, whatever became of the retried
\* request.
C25_RequestsCarryLatestPair ==
    /\ tokens = latest
    /\ pc = "api" =>
          /\ trace[Len(trace)].ev = "api"
          /\ trace[Len(trace)].headers[AccessHeader] = latest.access_token
    /\ pc = "refresh" =>
          /\ trace[Len(trace)].ev = "refresh"
          /\ trace[Len(trace)].headers[RefreshHeader] = latest.refresh_token

\* A third call sends the tokens of two refreshes of earlier calls: the
\* access token the second one gave, and the refresh token of the first,
\* which the second did not replace.
C25_Witness ==
    /\ calls = 3
    /\ sent.refresh = 3
    /\ pc = "refresh"
    /\ trace[1].headers[AccessHeader] = "a2"
    /\ trace[3].headers[RefreshHeader] = "r1"

(***************************************************************************)
(* Further claims about the two refresh operations (checked under          *)
(* SpecRefresh)                                                            *)
(***************************************************************************)

\* JikeClient._refresh has run on the pair and the response drawn.
ClientRefreshed == pc = "done"

\* C28: when the refresh call fails, by an HTTP error status or by a
\* network exception, the client holds the very pair it held before the
\* call, both fields, whatever headers the failed response carried.
C28_FailedRefreshKeepsPair ==
    (ClientRefreshed /\ ~RefreshSucceeded) =>
        /\ result.kind = "raise"
        /\ tokens = rin.pair
        /\ tokens.access_token = rin.pair.access_token
        /\ tokens.refresh_token = rin.pair.refresh_token

\* The refresh was answered 500 with both token headers set.
C28_Witness ==
    /\ ClientRefreshed
    /\ rin.resp # NetworkError
    /\ rin.resp.status = 500
    /\ rin.resp.headers = MkHeaders("a1", "r1")
    /\ tokens = rin.pair
    /\ result = RaisedHTTP(500)

\* Both refresh operations have run on the pair and the response drawn.
BothRefreshed == ClientRefreshed /\ rauth # None

\* C30: refresh_tokens(pair) and JikeClient._refresh on a client holding
\* the pair send the same request (method, URL, headers, body) and come to
\* the same end for every response: the pair one returns is the pair the
\* other installs, and the error one raises is the error the other raises.
C30_RefreshOperationsAgree ==
    BothRefreshed =>
        /\ rauth.request.method = trace[1].method
        /\ rauth.request.url = trace[1].url
        /\ rauth.request.headers = trace[1].headers
        /\ rauth.request.json = trace[1].json
        /\ IF RefreshSucceeded
           THEN /\ result = Returned(None)
                /\ rauth.outcome = Returned(tokens)
           ELSE /\ result.kind = "raise"
                /\ rauth.outcome = result
                /\ tokens = rin.pair

\* A response that sets the refresh token only: both give (a0, r2).
C30_Witness ==
    /\ BothRefreshed
    /\ rin.pair = TokenPair("a0", "r0")
    /\ rin.resp # NetworkError
    /\ rin.resp.headers = MkHeaders(NoValue, "r2")
    /\ rauth.outcome = Returned(TokenPair("a0", "r2"))
    /\ tokens = TokenPair("a0", "r2")

(***************************************************************************)
(* Further claims about every request of the package (checked under        *)
(* SpecPackage)                                                            *)
(***************************************************************************)

ToRefreshEndpoint(req) ==
    req.method = "POST" /\ req.url = <<API_BASE, "/app_auth_tokens.refresh">>

\* An authenticated API request: one of the paths the public methods call.
ToApiEndpoint(req) ==
    \E c \in Calls : req.method = c.method /\ req.url = <<API_BASE, c.path>>

\* C29: the refresh-token header goes only to the refresh endpoint and the
\* access-token header only to the API endpoints: no API request carries a
\* refresh token, and no refresh, session-creation or confirmation-poll
\* request carries an access token.
C29_TokensConfined ==
    \A req \in IssuedRequests :
        /\ RefreshHeader \in DOMAIN req.headers => ToRefreshEndpoint(req)
        /\ AccessHeader \in DOMAIN req.headers =>
              (req.method = "GET" \/ ~ToRefreshEndpoint(req)) /\ ToApiEndpoint(req)
        /\ ToRefreshEndpoint(req) => RefreshHeader \in DOMAIN req.headers

\* A call of a client that sent an API request, a refresh request and the
\* retry with the new access token.
C29_Witness ==
    /\ pc = "done"
    /\ Len(trace) = 6
    /\ AccessHeader \in DOMAIN trace[1].headers
    /\ RefreshHeader \in DOMAIN trace[3].headers
    /\ trace[5].headers[AccessHeader] = "a1"

\* authenticate sent its session, poll and refresh requests.
C29_AuthWitness ==
    /\ apc = "refresh"
    /\ preq # None
    /\ RefreshHeader \in DOMAIN alog[3].headers

(***************************************************************************)
(* Claims about the standalone scripts (checked under SpecScripts)         *)
(***************************************************************************)

\* The call got as far as its retried request: slog[3] is the refresh
\* request, slog[4] the refresh response, slog[5] the retried request.
ScriptRetried == Len(slog) >= 5

\* C21: in the scripts a token the refresh response does not return is
\* carried over from the prior pair: the retried request carries the
\* access-token header of the response, or the prior access token when the
\* header is absent, and the refresh token kept is the header's, or the
\* prior refresh token when the header is absent.
C21_ScriptRefreshCarriesOver ==
    ScriptRetried =>
        /\ slog[5].headers[AccessHeader] =
              Expected(slog[4].headers, AccessHeader, slog[1].headers[AccessHeader])
        /\ sframe.access_token =
              Expected(slog[4].headers, AccessHeader, slog[1].headers[AccessHeader])
        /\ sframe.refresh_token =
              Expected(slog[4].headers, RefreshHeader, slog[3].headers[RefreshHeader])

\* The half of C21 the scripts do satisfy: the refresh token is carried over.
ScriptRefreshTokenCarriesOver ==
    ScriptRetried =>
        sframe.refresh_token =
            Expected(slog[4].headers, RefreshHeader, slog[3].headers[RefreshHeader])

(***************************************************************************)
(* Claims about export.py's fetch_all_posts (checked under SpecExport)     *)
(***************************************************************************)

PagePosts(p) == IF "data" \in DOMAIN p.data THEN p.data["data"] ELSE <<>>
PageKey(p) == IF "loadMoreKey" \in DOMAIN p.data THEN p.data["loadMoreKey"] ELSE NoValue

\* A page after which fetch_all_posts is to stop: no loadMoreKey, or no posts.
StoppingPage(p) == ~Found(PageKey(p)) \/ Len(PagePosts(p)) = 0

RECURSIVE PostsOfPages(_)
PostsOfPages(pages) ==
    IF pages = <<>> THEN <<>>
    ELSE PostsOfPages(SubSeq(pages, 1, Len(pages) - 1)) \o PagePosts(pages[Len(pages)])

ExportReturned == spc = "end" /\ sresult.kind = "return"

\* C23: fetch_all_posts requests page after page, the first without a
\* loadMoreKey and each later one with the loadMoreKey of the page before;
\* every page but the last fetched had a loadMoreKey and posts, and the
\* page it returns after has none of the one or none of the other; no
\* request is made after that page; all_posts is the posts of the pages
\* fetched, in the order fetched.
C23_ExportPaginates ==
    /\ sposts = PostsOfPages(sfetched)
    /\ Len(sfetched) >= 1 => sfetched[1].sent = NoValue
    /\ \A i \in 2..Len(sfetched) : sfetched[i].sent = PageKey(sfetched[i - 1])
    /\ \A i \in 1..(Len(sfetched) - 1) : ~StoppingPage(sfetched[i])
    /\ spc \in {"api", "refresh"} =>
          /\ scalls = Len(sfetched) + 1
          /\ scall.json = IF sfetched = <<>> THEN NoValue
                          ELSE PageKey(sfetched[Len(sfetched)])
          /\ sfetched # <<>> => ~StoppingPage(sfetched[Len(sfetched)])
    /\ ExportReturned =>
          /\ scalls = Len(sfetched)
          /\ StoppingPage(sfetched[Len(sfetched)])

\* Three pages were fetched, the second after a refresh; the third has no
\* loadMoreKey.
C23_Witness ==
    /\ ExportReturned
    /\ Len(sfetched) = 3
    /\ sfetched[2].sent = "k1"
    /\ sfetched[3].sent = "k2"
    /\ sposts = <<"p1", "p2", "p3", "p4">>
    /\ sthread = TokenPair("a1", "r1")

(***************************************************************************)
(* Claims about the pair the scripts carry from call to call (checked      *)
(* under SpecScripts)                                                      *)
(***************************************************************************)

\* The present call has not refreshed (yet): what it has sent, it has sent
\* with the pair its caller gave it.
SentWithCallersPair == spc \in {"api", "refresh", "idle", "end"} /\ Len(slog) \in 1..4

\* C26: in notifications of scripts/client.py, when the first call
\* (unread) refreshed the tokens, the second call (list) goes out with the
\* refreshed access token, and if it refreshes in its turn it sends the
\* refresh token the first refresh returned, not the one already exchanged.
C26_NotificationsUseRefreshedPair ==
    (script = "client" /\ scalls = 2 /\ SentWithCallersPair) =>
        /\ slog[1].headers[AccessHeader] = slatest.access_token
        /\ Len(slog) >= 3 => slog[3].headers[RefreshHeader] = slatest.refresh_token

\* C27: in find_users.py the pair threaded from call to call is the pair of
\* the most recent successful refresh (the pair of the command line before
\* any): between calls main holds that pair, and every call goes out with
\* it, also after a call that refreshed and then ended in an HTTP error
\* that search_keyword or fetch_profile caught.
C27_FindUsersThreadsLatestPair ==
    script = "find_users" =>
        /\ spc = "idle" => sthread = slatest
        /\ SentWithCallersPair =>
              /\ slog[1].headers[AccessHeader] = slatest.access_token
              /\ Len(slog) >= 3 => slog[3].headers[RefreshHeader] = slatest.refresh_token

\* What find_users.py does satisfy: a call that returns hands the pair of
\* the most recent successful refresh to its caller.
FindUsersThreadsAfterReturn ==
    (script = "find_users" /\ spc = "idle" /\ sresult # None /\ sresult.kind = "return"
        /\ Len(slog) >= 5) => sthread = slatest

====
